---------------------------- MODULE Spec2Model ----------------------------
(***************************************************************************)
(* A model of src/main.rs: a single-threaded HTTP server offering Create,  *)
(* GetOne, GetAll and Delete over the `users` table of a PostgreSQL store. *)
(*                                                                         *)
(* Texts (request texts, response bodies) are sequences of one-character   *)
(* strings, so that prefix tests, splitting, integer parsing and the JSON   *)
(* conversions are computed character by character, as the code does.      *)
(***************************************************************************)
EXTENDS Integers, Sequences, FiniteSets, TLC

(***************************************************************************)
(* Bounds of the model.                                                    *)
(***************************************************************************)
\* The number of client connections of a run.
MaxConns == 4

(***************************************************************************)
(* Program constants.                                                      *)
(***************************************************************************)
OK_RESPONSE == "HTTP/1.1 200 OK\r\nContent-Type: application/json\r\n\r\n"

NOT_FOUND == "HTTP/1.1 404 NOT FOUND\r\n\r\n"

INTERNAL_SERVER_ERROR == "HTTP/1.1 500 INTERNAL_SERVER_ERROR\r\n\r\n"

\* let mut buffer = [0; 1024];
BUFFER_SIZE == 1024

\* The largest and the smallest value of Rust's i32.
I32_MAX == 2147483647

I32_MIN == (-I32_MAX) - 1

(***************************************************************************)
(* The literal texts of the program.                                       *)
(***************************************************************************)
\* POST /users
POST_USERS ==
    <<"P","O","S","T"," ","/","u","s","e","r","s">>
\* GET /users/
GET_USERS_SLASH ==
    <<"G","E","T"," ","/","u","s","e","r","s","/">>
\* GET /users
GET_USERS ==
    <<"G","E","T"," ","/","u","s","e","r","s">>
\* DELETE /users/
DELETE_USERS_SLASH ==
    <<"D","E","L","E","T","E"," ","/","u","s","e","r","s","/">>
\* \r\n\r\n
CRLFCRLF ==
    <<"\r","\n","\r","\n">>
\* Not Found
MSG_NOT_FOUND ==
    <<"N","o","t"," ","F","o","u","n","d">>
\* User Created
MSG_USER_CREATED ==
    <<"U","s","e","r"," ","C","r","e","a","t","e","d">>
\* Error
MSG_ERROR ==
    <<"E","r","r","o","r">>
\* Invalid ID
MSG_INVALID_ID ==
    <<"I","n","v","a","l","i","d"," ","I","D">>
\* User not found
MSG_USER_NOT_FOUND ==
    <<"U","s","e","r"," ","n","o","t"," ","f","o","u","n","d">>
\* Database error
MSG_DATABASE_ERROR ==
    <<"D","a","t","a","b","a","s","e"," ","e","r","r","o","r">>
\* User Deleted
MSG_USER_DELETED ==
    <<"U","s","e","r"," ","D","e","l","e","t","e","d">>
\* null
JSON_NULL ==
    <<"n","u","l","l">>
\* true
JSON_TRUE ==
    <<"t","r","u","e">>
\* false
JSON_FALSE ==
    <<"f","a","l","s","e">>
\* id
KEY_ID ==
    <<"i","d">>
\* name
KEY_NAME ==
    <<"n","a","m","e">>
\* email
KEY_EMAIL ==
    <<"e","m","a","i","l">>
\* {"id":
JSON_ID_PREFIX ==
    <<"{","\"","i","d","\"",":">>
\* ,"name":
JSON_NAME_PREFIX ==
    <<",","\"","n","a","m","e","\"",":">>
\* ,"email":
JSON_EMAIL_PREFIX ==
    <<",","\"","e","m","a","i","l","\"",":">>

(***************************************************************************)
(* Request texts.                                                          *)
(***************************************************************************)
\* POST /users HTTP/1.1\r\nHost: x\r\n\r\n{"name":"ann","email":"a@x"}
REQ_POST_ANN ==
    <<"P","O","S","T"," ","/","u","s","e","r","s"," ","H","T","T","P","/","1",".","1","\r","\n",
      "H","o","s","t",":"," ","x","\r","\n","\r","\n","{","\"","n","a","m","e","\"",":","\"",
      "a","n","n","\"",",","\"","e","m","a","i","l","\"",":","\"","a","@","x","\"","}">>
\* POST /users HTTP/1.1\r\n\r\n{ "email":"b@x", "id":7, "name":"bob" }
REQ_POST_BOB ==
    <<"P","O","S","T"," ","/","u","s","e","r","s"," ","H","T","T","P","/","1",".","1","\r","\n",
      "\r","\n","{"," ","\"","e","m","a","i","l","\"",":","\"","b","@","x","\"",","," ","\"",
      "i","d","\"",":","7",","," ","\"","n","a","m","e","\"",":","\"","b","o","b","\""," ","}">>
\* POST /users HTTP/1.1\r\n\r\n{"name":"","email":"a@x"}
REQ_POST_EMPTY_NAME ==
    <<"P","O","S","T"," ","/","u","s","e","r","s"," ","H","T","T","P","/","1",".","1","\r","\n",
      "\r","\n","{","\"","n","a","m","e","\"",":","\"","\"",",","\"","e","m","a","i","l","\"",
      ":","\"","a","@","x","\"","}">>
\* POST /users HTTP/1.1\r\n\r\n{"email":"a@x"}
REQ_POST_NO_NAME ==
    <<"P","O","S","T"," ","/","u","s","e","r","s"," ","H","T","T","P","/","1",".","1","\r","\n",
      "\r","\n","{","\"","e","m","a","i","l","\"",":","\"","a","@","x","\"","}">>
\* POST /users HTTP/1.1\r\n\r\n{"name":null,"email":"a@x"}
REQ_POST_NULL_NAME ==
    <<"P","O","S","T"," ","/","u","s","e","r","s"," ","H","T","T","P","/","1",".","1","\r","\n",
      "\r","\n","{","\"","n","a","m","e","\"",":","n","u","l","l",",","\"","e","m","a","i","l",
      "\"",":","\"","a","@","x","\"","}">>
\* POST /users HTTP/1.1\r\n\r\n
REQ_POST_NO_BODY ==
    <<"P","O","S","T"," ","/","u","s","e","r","s"," ","H","T","T","P","/","1",".","1","\r","\n",
      "\r","\n">>
\* POST /users/1 HTTP/1.1\r\n\r\n{"name":"ann","email":"a@x"}
REQ_POST_SUBPATH ==
    <<"P","O","S","T"," ","/","u","s","e","r","s","/","1"," ","H","T","T","P","/","1",".","1",
      "\r","\n","\r","\n","{","\"","n","a","m","e","\"",":","\"","a","n","n","\"",",","\"","e",
      "m","a","i","l","\"",":","\"","a","@","x","\"","}">>
\* GET /users/1 HTTP/1.1\r\n\r\n
REQ_GET_1 ==
    <<"G","E","T"," ","/","u","s","e","r","s","/","1"," ","H","T","T","P","/","1",".","1","\r",
      "\n","\r","\n">>
\* GET /users/2 HTTP/1.1\r\n\r\n
REQ_GET_2 ==
    <<"G","E","T"," ","/","u","s","e","r","s","/","2"," ","H","T","T","P","/","1",".","1","\r",
      "\n","\r","\n">>
\* GET /users/+1 HTTP/1.1\r\n\r\n
REQ_GET_PLUS_1 ==
    <<"G","E","T"," ","/","u","s","e","r","s","/","+","1"," ","H","T","T","P","/","1",".","1",
      "\r","\n","\r","\n">>
\* GET /users/3/posts HTTP/1.1\r\n\r\n
REQ_GET_3_SUBPATH ==
    <<"G","E","T"," ","/","u","s","e","r","s","/","3","/","p","o","s","t","s"," ","H","T","T",
      "P","/","1",".","1","\r","\n","\r","\n">>
\* GET /users/abc HTTP/1.1\r\n\r\n
REQ_GET_ABC ==
    <<"G","E","T"," ","/","u","s","e","r","s","/","a","b","c"," ","H","T","T","P","/","1",".",
      "1","\r","\n","\r","\n">>
\* GET /users/ HTTP/1.1\r\n\r\n
REQ_GET_EMPTY_ID ==
    <<"G","E","T"," ","/","u","s","e","r","s","/"," ","H","T","T","P","/","1",".","1","\r","\n",
      "\r","\n">>
\* GET /users/ 1 HTTP/1.1\r\n\r\n
REQ_GET_SPACE_1 ==
    <<"G","E","T"," ","/","u","s","e","r","s","/"," ","1"," ","H","T","T","P","/","1",".","1",
      "\r","\n","\r","\n">>
\* GET /users/2147483648 HTTP/1.1\r\n\r\n
REQ_GET_TOO_BIG ==
    <<"G","E","T"," ","/","u","s","e","r","s","/","2","1","4","7","4","8","3","6","4","8"," ",
      "H","T","T","P","/","1",".","1","\r","\n","\r","\n">>
\* GET /users/2147483647 HTTP/1.1\r\n\r\n
REQ_GET_I32_MAX ==
    <<"G","E","T"," ","/","u","s","e","r","s","/","2","1","4","7","4","8","3","6","4","7"," ",
      "H","T","T","P","/","1",".","1","\r","\n","\r","\n">>
\* GET /users/
REQ_GET_BARE ==
    <<"G","E","T"," ","/","u","s","e","r","s","/">>
\* GET /users HTTP/1.1\r\n\r\n
REQ_GET_ALL ==
    <<"G","E","T"," ","/","u","s","e","r","s"," ","H","T","T","P","/","1",".","1","\r","\n",
      "\r","\n">>
\* GET /users?page=1 HTTP/1.1\r\n\r\n
REQ_GET_ALL_QUERY ==
    <<"G","E","T"," ","/","u","s","e","r","s","?","p","a","g","e","=","1"," ","H","T","T","P",
      "/","1",".","1","\r","\n","\r","\n">>
\* DELETE /users/1 HTTP/1.1\r\n\r\n
REQ_DELETE_1 ==
    <<"D","E","L","E","T","E"," ","/","u","s","e","r","s","/","1"," ","H","T","T","P","/","1",
      ".","1","\r","\n","\r","\n">>
\* DELETE /users/2 HTTP/1.1\r\n\r\n
REQ_DELETE_2 ==
    <<"D","E","L","E","T","E"," ","/","u","s","e","r","s","/","2"," ","H","T","T","P","/","1",
      ".","1","\r","\n","\r","\n">>
\* DELETE /users/-2147483648 HTTP/1.1\r\n\r\n
REQ_DELETE_NEG ==
    <<"D","E","L","E","T","E"," ","/","u","s","e","r","s","/","-","2","1","4","7","4","8","3",
      "6","4","8"," ","H","T","T","P","/","1",".","1","\r","\n","\r","\n">>
\* DELETE /users/1x HTTP/1.1\r\n\r\n
REQ_DELETE_1X ==
    <<"D","E","L","E","T","E"," ","/","u","s","e","r","s","/","1","x"," ","H","T","T","P","/",
      "1",".","1","\r","\n","\r","\n">>
\* DELETE /users HTTP/1.1\r\n\r\n
REQ_DELETE_NO_ID ==
    <<"D","E","L","E","T","E"," ","/","u","s","e","r","s"," ","H","T","T","P","/","1",".","1",
      "\r","\n","\r","\n">>
\* PUT /users/1 HTTP/1.1\r\n\r\n{"name":"ann","email":"a@x"}
REQ_PUT_1 ==
    <<"P","U","T"," ","/","u","s","e","r","s","/","1"," ","H","T","T","P","/","1",".","1","\r",
      "\n","\r","\n","{","\"","n","a","m","e","\"",":","\"","a","n","n","\"",",","\"","e","m",
      "a","i","l","\"",":","\"","a","@","x","\"","}">>
\* get /users/1 HTTP/1.1\r\n\r\n
REQ_LOWERCASE ==
    <<"g","e","t"," ","/","u","s","e","r","s","/","1"," ","H","T","T","P","/","1",".","1","\r",
      "\n","\r","\n">>
\* (the empty text)
REQ_EMPTY ==
    <<>>

(***************************************************************************)
(* Text primitives of the Rust standard library, as the code uses them.    *)
(***************************************************************************)
\* str::starts_with
starts_with(r, p) == Len(r) >= Len(p) /\ SubSeq(r, 1, Len(p)) = p

\* char::is_whitespace, on the characters a request text of the model holds.
is_whitespace(c) == c \in {" ", "\t", "\n", "\r"}

\* char::is_ascii_digit and the digit's value.
DIGITS == <<"0","1","2","3","4","5","6","7","8","9">>

is_digit(c) == \E k \in 1..10 : DIGITS[k] = c

digit_value(c) == (CHOOSE k \in 1..10 : DIGITS[k] = c) - 1

\* str::split("/"): the sequence of the tokens between the slashes.
RECURSIVE split_slash_from(_, _, _, _)
split_slash_from(s, i, tok, acc) ==
    IF i > Len(s) THEN Append(acc, tok)
    ELSE IF s[i] = "/" THEN split_slash_from(s, i + 1, <<>>, Append(acc, tok))
    ELSE split_slash_from(s, i + 1, Append(tok, s[i]), acc)

split_slash(s) == split_slash_from(s, 1, <<>>, <<>>)

\* str::split_whitespace: the sequence of the maximal runs of non-whitespace.
RECURSIVE split_whitespace_from(_, _, _, _)
split_whitespace_from(s, i, tok, acc) ==
    IF i > Len(s) THEN (IF tok = <<>> THEN acc ELSE Append(acc, tok))
    ELSE IF is_whitespace(s[i])
         THEN split_whitespace_from(s, i + 1, <<>>,
                                    IF tok = <<>> THEN acc ELSE Append(acc, tok))
    ELSE split_whitespace_from(s, i + 1, Append(tok, s[i]), acc)

split_whitespace(s) == split_whitespace_from(s, 1, <<>>, <<>>)

\* Iterator::nth(n).unwrap_or_default(), n counted from 0.
nth_or_default(seq, n) == IF n + 1 <= Len(seq) THEN seq[n + 1] ELSE <<>>

\* request.split("\r\n\r\n").last().unwrap_or_default(): the text after the
\* last separator found scanning from the left (the whole text without one).
RECURSIVE last_segment_from(_, _, _)
last_segment_from(s, i, start) ==
    IF i + 3 > Len(s) THEN SubSeq(s, start, Len(s))
    ELSE IF SubSeq(s, i, i + 3) = CRLFCRLF THEN last_segment_from(s, i + 4, i + 4)
    ELSE last_segment_from(s, i + 1, start)

last_segment(s) == last_segment_from(s, 1, 1)

\* str::parse::<i32>: an optional sign, then one or more digits, the value
\* within the 32 bits.  [ok |-> FALSE] is Err, [ok |-> TRUE, val |-> n] is Ok(n).
RECURSIVE parse_digits(_, _, _, _)
parse_digits(s, i, acc, negative) ==
    IF i > Len(s) THEN [ok |-> TRUE, val |-> acc]
    ELSE IF ~is_digit(s[i]) THEN [ok |-> FALSE, val |-> 0]
    ELSE LET d == digit_value(s[i]) IN
         IF negative
         THEN LET least == IF d = 0 THEN -(I32_MAX \div 10)
                           ELSE -(((I32_MAX - d) + 1) \div 10) IN
              IF acc < least THEN [ok |-> FALSE, val |-> 0]
              ELSE parse_digits(s, i + 1, acc * 10 - d, negative)
         ELSE IF acc > (I32_MAX - d) \div 10 THEN [ok |-> FALSE, val |-> 0]
              ELSE parse_digits(s, i + 1, acc * 10 + d, negative)

parse_i32(s) ==
    IF s = <<>> THEN [ok |-> FALSE, val |-> 0]
    ELSE IF s[1] \in {"+", "-"}
         THEN (IF Len(s) = 1 THEN [ok |-> FALSE, val |-> 0]
               ELSE parse_digits(s, 2, 0, s[1] = "-"))
    ELSE parse_digits(s, 1, 0, FALSE)

(***************************************************************************)
(* serde_json, on the User struct.  Option<i32> is <<>> (None) or <<n>>     *)
(* (Some(n)).                                                              *)
(***************************************************************************)
\* i32's Display: the decimal digits, a minus sign first for a negative value.
RECURSIVE natural_to_text(_)
natural_to_text(n) ==
    IF n < 10 THEN <<DIGITS[n + 1]>>
    ELSE Append(natural_to_text(n \div 10), DIGITS[(n % 10) + 1])

i32_to_text(n) ==
    IF n >= 0 THEN natural_to_text(n)
    ELSE IF n = I32_MIN
         THEN <<"-">> \o natural_to_text(I32_MAX \div 10) \o <<"8">>
    ELSE <<"-">> \o natural_to_text(-n)

\* serde_json's string formatter: the quotes, and the escapes of the
\* characters that need one.
RECURSIVE escape_text(_, _)
escape_text(s, i) ==
    IF i > Len(s) THEN <<>>
    ELSE (CASE s[i] = "\"" -> <<"\\", "\"">>
            [] s[i] = "\\" -> <<"\\", "\\">>
            [] s[i] = "\n" -> <<"\\", "n">>
            [] s[i] = "\r" -> <<"\\", "r">>
            [] s[i] = "\t" -> <<"\\", "t">>
            [] OTHER -> <<s[i]>>) \o escape_text(s, i + 1)

json_string(s) == <<"\"">> \o escape_text(s, 1) \o <<"\"">>

\* serde_json::to_string(&user): the fields in the order id, name, email.
to_string_user(user) ==
    JSON_ID_PREFIX
      \o (IF user.id = <<>> THEN JSON_NULL ELSE i32_to_text(user.id[1]))
      \o JSON_NAME_PREFIX \o json_string(user.name)
      \o JSON_EMAIL_PREFIX \o json_string(user.email) \o <<"}">>

\* serde_json::to_string(&users) of a Vec<User>: a JSON array.
RECURSIVE join_users(_, _)
join_users(users, i) ==
    IF i > Len(users) THEN <<>>
    ELSE (IF i > 1 THEN <<",">> ELSE <<>>)
           \o to_string_user(users[i]) \o join_users(users, i + 1)

to_string_users(users) == <<"[">> \o join_users(users, 1) \o <<"]">>

(***************************************************************************)
(* serde_json::from_str::<User>.  The grammar covered: objects whose       *)
(* values are strings (with the escapes \" \\ \/ \n \r \t), integers,        *)
(* null, true and false, with JSON whitespace between the tokens.           *)
(***************************************************************************)
JSON_FAIL == [ok |-> FALSE, kind |-> "none", val |-> <<>>, next |-> 0]

RECURSIVE skip_whitespace(_, _)
skip_whitespace(s, i) ==
    IF i <= Len(s) /\ is_whitespace(s[i]) THEN skip_whitespace(s, i + 1) ELSE i

\* A string, from the character after its opening quote.
RECURSIVE parse_json_string(_, _, _)
parse_json_string(s, i, acc) ==
    IF i > Len(s) THEN JSON_FAIL
    ELSE IF s[i] = "\"" THEN [ok |-> TRUE, kind |-> "str", val |-> acc, next |-> i + 1]
    ELSE IF s[i] = "\\"
         THEN (IF i + 1 > Len(s) THEN JSON_FAIL
               ELSE IF s[i + 1] \in {"\"", "\\", "/"}
                    THEN parse_json_string(s, i + 2, Append(acc, s[i + 1]))
               ELSE IF s[i + 1] = "n" THEN parse_json_string(s, i + 2, Append(acc, "\n"))
               ELSE IF s[i + 1] = "r" THEN parse_json_string(s, i + 2, Append(acc, "\r"))
               ELSE IF s[i + 1] = "t" THEN parse_json_string(s, i + 2, Append(acc, "\t"))
               ELSE JSON_FAIL)
    ELSE IF s[i] \in {"\n", "\r", "\t"} THEN JSON_FAIL
    ELSE parse_json_string(s, i + 1, Append(acc, s[i]))

\* The end of the run of digits that starts at i.
RECURSIVE digits_end(_, _)
digits_end(s, i) == IF i <= Len(s) /\ is_digit(s[i]) THEN digits_end(s, i + 1) ELSE i

\* An integer: an optional minus, then 0 or a digit run with no leading 0.
\* kind "int" when it fits an i32 (val <<n>>), "big" when it does not.
parse_json_number(s, i) ==
    LET first == IF s[i] = "-" THEN i + 1 ELSE i
        last  == digits_end(s, first)
    IN  IF last = first THEN JSON_FAIL
        ELSE IF s[first] = "0" /\ last > first + 1 THEN JSON_FAIL
        ELSE IF last <= Len(s) /\ s[last] \in {".", "e", "E"} THEN JSON_FAIL
        ELSE LET n == parse_i32(SubSeq(s, i, last - 1)) IN
             IF n.ok THEN [ok |-> TRUE, kind |-> "int", val |-> <<n.val>>, next |-> last]
             ELSE [ok |-> TRUE, kind |-> "big", val |-> <<>>, next |-> last]

parse_json_value(s, i) ==
    IF i > Len(s) THEN JSON_FAIL
    ELSE IF s[i] = "\"" THEN parse_json_string(s, i + 1, <<>>)
    ELSE IF s[i] = "-" \/ is_digit(s[i]) THEN parse_json_number(s, i)
    ELSE IF starts_with(SubSeq(s, i, Len(s)), JSON_NULL)
         THEN [ok |-> TRUE, kind |-> "null", val |-> <<>>, next |-> i + 4]
    ELSE IF starts_with(SubSeq(s, i, Len(s)), JSON_TRUE)
         THEN [ok |-> TRUE, kind |-> "bool", val |-> <<>>, next |-> i + 4]
    ELSE IF starts_with(SubSeq(s, i, Len(s)), JSON_FALSE)
         THEN [ok |-> TRUE, kind |-> "bool", val |-> <<>>, next |-> i + 5]
    ELSE JSON_FAIL

\* The derived Deserialize of User, one key at a time: id is an Option<i32>,
\* name and email are Strings, a repeated field is an error, any other key
\* is ignored.  fields is the set of the fields seen so far.
visit_field(u, key, v) ==
    IF key = KEY_ID
    THEN (IF "id" \in u.fields \/ v.kind \notin {"int", "null"} THEN [u EXCEPT !.ok = FALSE]
          ELSE [u EXCEPT !.id = v.val, !.fields = @ \cup {"id"}])
    ELSE IF key = KEY_NAME
    THEN (IF "name" \in u.fields \/ v.kind # "str" THEN [u EXCEPT !.ok = FALSE]
          ELSE [u EXCEPT !.name = v.val, !.fields = @ \cup {"name"}])
    ELSE IF key = KEY_EMAIL
    THEN (IF "email" \in u.fields \/ v.kind # "str" THEN [u EXCEPT !.ok = FALSE]
          ELSE [u EXCEPT !.email = v.val, !.fields = @ \cup {"email"}])
    ELSE u

\* The members of an object, from the character after "{" or after ",".
RECURSIVE parse_json_members(_, _, _, _)
parse_json_members(s, i, u, first) ==
    LET j == skip_whitespace(s, i) IN
    IF j > Len(s) THEN [u EXCEPT !.ok = FALSE]
    ELSE IF s[j] = "}" /\ first THEN [u EXCEPT !.next = j + 1]
    ELSE IF s[j] # "\"" THEN [u EXCEPT !.ok = FALSE]
    ELSE LET key == parse_json_string(s, j + 1, <<>>) IN
         IF ~key.ok THEN [u EXCEPT !.ok = FALSE]
         ELSE LET colon == skip_whitespace(s, key.next) IN
              IF colon > Len(s) \/ s[colon] # ":" THEN [u EXCEPT !.ok = FALSE]
              ELSE LET v == parse_json_value(s, skip_whitespace(s, colon + 1)) IN
                   IF ~v.ok THEN [u EXCEPT !.ok = FALSE]
                   ELSE LET u2 == visit_field(u, key.val, v)
                            e  == skip_whitespace(s, v.next)
                        IN  IF ~u2.ok \/ e > Len(s) THEN [u EXCEPT !.ok = FALSE]
                            ELSE IF s[e] = "," THEN parse_json_members(s, e + 1, u2, FALSE)
                            ELSE IF s[e] = "}" THEN [u2 EXCEPT !.next = e + 1]
                            ELSE [u EXCEPT !.ok = FALSE]

\* [ok |-> TRUE, user |-> [id, name, email]] is Ok(user), [ok |-> FALSE, ...]
\* is Err: no object, a missing name or email, or text after the object.
from_str_user(s) ==
    LET start == skip_whitespace(s, 1)
        empty == [id |-> <<>>, name |-> <<>>, email |-> <<>>]
        err   == [ok |-> FALSE, user |-> empty]
    IN  IF start > Len(s) \/ s[start] # "{" THEN err
        ELSE LET u == parse_json_members(s, start + 1,
                        [ok |-> TRUE, id |-> <<>>, name |-> <<>>, email |-> <<>>,
                         fields |-> {}, next |-> 0], TRUE)
             IN  IF ~u.ok \/ ~({"name", "email"} \subseteq u.fields) THEN err
                 ELSE IF skip_whitespace(s, u.next) <= Len(s) THEN err
                 ELSE [ok |-> TRUE,
                       user |-> [id |-> u.id, name |-> u.name, email |-> u.email]]

(***************************************************************************)
(* The helpers of main.rs.                                                 *)
(***************************************************************************)
\* A faulty get_id that takes the second "/"-token (nth(1)) instead of the third.
get_id_second_token(request) ==
    nth_or_default(split_whitespace(nth_or_default(split_slash(request), 1)), 0)

\* get_id: the first whitespace-separated word of the third "/"-token.
get_id(request) ==
    nth_or_default(split_whitespace(nth_or_default(split_slash(request), 2)), 0)

\* A faulty get_user_from_request_body that swallows the parse error and goes
\* on with a default User (unwrap_or_default).
get_user_or_default(request) ==
    [ok |-> TRUE, user |-> from_str_user(last_segment(request)).user]

get_user_from_request_body(request) == from_str_user(last_segment(request))

\* stream.read into the 1024-byte buffer, then String::from_utf8_lossy: the
\* first BUFFER_SIZE bytes of what the client sent (the texts of the model
\* are ASCII, which the lossy decoding leaves as it is).
read_request(sent) ==
    SubSeq(sent, 1, IF Len(sent) < BUFFER_SIZE THEN Len(sent) ELSE BUFFER_SIZE)

\* A faulty match whose general arm "GET /users" stands before the specific
\* arm "GET /users/".
route_general_first(r) ==
    IF starts_with(r, POST_USERS) THEN "post"
    ELSE IF starts_with(r, GET_USERS) THEN "get_all"
    ELSE IF starts_with(r, GET_USERS_SLASH) THEN "get"
    ELSE IF starts_with(r, DELETE_USERS_SLASH) THEN "delete"
    ELSE "not_found"

\* The match of handle_client: the arms are tried in this order.
route(r) ==
    IF starts_with(r, POST_USERS) THEN "post"
    ELSE IF starts_with(r, GET_USERS_SLASH) THEN "get"
    ELSE IF starts_with(r, GET_USERS) THEN "get_all"
    ELSE IF starts_with(r, DELETE_USERS_SLASH) THEN "delete"
    ELSE "not_found"

(***************************************************************************)
(* The texts a client may send: well-formed requests of each of the four   *)
(* operations, and the malformed ones around them.                         *)
(***************************************************************************)
Requests ==
    { REQ_POST_ANN, REQ_POST_BOB, REQ_POST_EMPTY_NAME, REQ_POST_NO_NAME,
      REQ_POST_NULL_NAME, REQ_POST_NO_BODY, REQ_POST_SUBPATH,
      REQ_GET_1, REQ_GET_2, REQ_GET_PLUS_1, REQ_GET_3_SUBPATH, REQ_GET_ABC,
      REQ_GET_EMPTY_ID, REQ_GET_SPACE_1, REQ_GET_TOO_BIG, REQ_GET_I32_MAX,
      REQ_GET_BARE, REQ_GET_ALL, REQ_GET_ALL_QUERY,
      REQ_DELETE_1, REQ_DELETE_2, REQ_DELETE_NEG, REQ_DELETE_1X, REQ_DELETE_NO_ID,
      REQ_PUT_1, REQ_LOWERCASE, REQ_EMPTY }

ConnIds == 1..MaxConns

(***************************************************************************)
(* The state.                                                              *)
(*   pc        where the main thread is: "start", "accept" (in             *)
(*             listener.incoming()), "read", "match", "entry", "connect",  *)
(*             "execute", "write" (inside handle_client), "exited"         *)
(*             (main returned) or "crashed" (a panic unwound main)         *)
(*   conn      each client connection: "new", "queued" (in the listen      *)
(*             backlog), "open" (its stream is held by handle_client),     *)
(*             "answered" (closed after the response was written) or       *)
(*             "unanswered" (closed with no response: a failed accept,     *)
(*             read or write, or the death of the process)                 *)
(*   cur       the connection handle_client holds, 0 for none              *)
(*   request, handler, id, user, client, sql, response                     *)
(*             the locals of handle_client and of the handler it runs      *)
(*   users, users_id_seq                                                   *)
(*             the rows of the users table in heap order, and the next     *)
(*             value of the sequence behind its SERIAL id                  *)
(*   created, deleted                                                      *)
(*             history: the rows whose Create returned 200, the ids whose  *)
(*             Delete returned 200                                         *)
(***************************************************************************)
VARIABLES pc, conn, cur, request, handler, id, user, client, sql, response,
          users, users_id_seq, created, deleted

locals == <<request, handler, id, user, client, sql, response>>

store == <<users, users_id_seq>>

history == <<created, deleted>>

vars == <<pc, conn, cur, request, handler, id, user, client, sql, response,
          users, users_id_seq, created, deleted>>

NO_RESPONSE == [status_line |-> "", content |-> <<>>]

NO_USER == [ok |-> FALSE, user |-> [id |-> <<>>, name |-> <<>>, email |-> <<>>]]

\* The (status line, body) pair a handler returns.
reply(status_line, content) == [status_line |-> status_line, content |-> content]

no_locals ==
    /\ request' = <<>>
    /\ handler' = "none"
    /\ id' = <<>>
    /\ user' = NO_USER
    /\ client' = "none"
    /\ sql' = "none"
    /\ response' = NO_RESPONSE

Init ==
    /\ pc = "start"
    /\ conn = [c \in ConnIds |-> "new"]
    /\ cur = 0
    /\ request = <<>>
    /\ handler = "none"
    /\ id = <<>>
    /\ user = NO_USER
    /\ client = "none"
    /\ sql = "none"
    /\ response = NO_RESPONSE
    /\ users = <<>>
    /\ users_id_seq = 1
    /\ created = {}
    /\ deleted = {}

(***************************************************************************)
(* The store: the users table and the statements the handlers send.        *)
(***************************************************************************)
\* A faulty id column that numbers a new row by the count of the rows, so
\* that the id of a deleted row is given out again.
reuse_freed_id(rows, seq) == Len(rows) + 1

\* id SERIAL PRIMARY KEY: the id of a new row is the sequence's next value.
serial_id(rows, seq) == seq

\* PRIMARY KEY: no two rows share an id.
primary_key_allows(rows, new_id) == \A k \in 1..Len(rows) : rows[k].id # new_id

\* INSERT INTO users (name, email) VALUES ($1, $2)
insert_into_users(rows, seq, name, email) ==
    Append(rows, [id |-> serial_id(rows, seq), name |-> name, email |-> email])

has_id(row, n) == row.id = n

\* A faulty SELECT that lost its WHERE clause.
select_without_where(rows, n) == rows

\* SELECT id, name, email FROM users WHERE id = $1
select_where_id(rows, n) == SelectSeq(rows, LAMBDA row : has_id(row, n))

\* A faulty DELETE that lost its WHERE clause.
delete_without_where(rows, n) == <<>>

\* DELETE FROM users WHERE id = $1: the rows that stay.
delete_where_id(rows, n) == SelectSeq(rows, LAMBDA row : ~has_id(row, n))

\* A faulty row mapping that reads the name and the email from each other's
\* column.
row_to_user_swapped(row) == [id |-> <<row.id>>, name |-> row.email, email |-> row.name]

\* User { id: Some(row.get(0)), name: row.get(1), email: row.get(2) }
row_to_user(row) == [id |-> <<row.id>>, name |-> row.name, email |-> row.email]

\* The loop of handle_get_all_request that fills the Vec<User>.
rows_to_users(rows) == [k \in 1..Len(rows) |-> row_to_user(rows[k])]

(***************************************************************************)
(* main                                                                    *)
(***************************************************************************)
\* A server that ran each handler on a thread of its own would lose only that
\* thread to a panic: the accept loop would go on.
on_panic_in_own_thread == "accept"

\* A panic (an unwrap of an Err) unwinds the thread it happens on.  The
\* handlers run on the main thread, so it ends the process.
on_panic == "crashed"

\* A server that ran each handler on a thread of its own would accept the next
\* connection while a handler is running.
can_accept_while_handling == pc \notin {"start", "exited", "crashed"}

\* The loop over listener.incoming() takes the next connection only when
\* handle_client has returned.
can_accept == pc = "accept"

\* set_database, then TcpListener::bind(..).unwrap().
main_start ==
    /\ pc = "start"
    /\ \E outcome \in {"ok", "database_error", "bind_error"} :
         pc' = CASE outcome = "ok" -> "accept"
                 [] outcome = "database_error" -> "exited"
                 [] outcome = "bind_error" -> on_panic
    /\ UNCHANGED <<conn, cur, locals, store, history>>

\* A client connects: the connection waits in the backlog of the listener.
client_connects ==
    /\ pc \notin {"start", "exited", "crashed"}
    /\ \E c \in ConnIds :
         /\ conn[c] = "new"
         /\ \A d \in 1..(c - 1) : conn[d] # "new"
         /\ conn' = [conn EXCEPT ![c] = "queued"]
    /\ UNCHANGED <<pc, cur, locals, store, history>>

\* for stream in listener.incoming(): Ok(stream) calls handle_client, Err is
\* printed.
main_accept ==
    /\ can_accept
    /\ \E c \in ConnIds :
         /\ conn[c] = "queued"
         /\ \A d \in 1..(c - 1) : conn[d] # "queued"
         /\ \/ /\ conn' = [conn EXCEPT ![c] = "open"]
               /\ cur' = c
               /\ pc' = "read"
            \/ /\ conn' = [conn EXCEPT ![c] = "unanswered"]
               /\ UNCHANGED <<pc, cur>>
    /\ UNCHANGED <<locals, store, history>>

(***************************************************************************)
(* handle_client                                                           *)
(***************************************************************************)
\* stream.read(&mut buffer): Ok(size) gives the request text, Err is printed
\* and the stream dropped.
handle_client_read ==
    /\ pc = "read"
    /\ \/ /\ \E sent \in Requests : request' = read_request(sent)
          /\ pc' = "match"
          /\ UNCHANGED <<conn, cur>>
       \/ /\ conn' = [conn EXCEPT ![cur] = "unanswered"]
          /\ cur' = 0
          /\ pc' = "accept"
          /\ UNCHANGED request
    /\ UNCHANGED <<handler, id, user, client, sql, response, store, history>>

\* The match on the request text: one handler, or the 404 of the last arm.
handle_client_match ==
    /\ pc = "match"
    /\ handler' = route(request)
    /\ IF handler' = "not_found"
       THEN /\ response' = reply(NOT_FOUND, MSG_NOT_FOUND)
            /\ pc' = "write"
       ELSE /\ response' = response
            /\ pc' = "entry"
    /\ UNCHANGED <<conn, cur, request, id, user, client, sql, store, history>>

\* stream.write_all of the status line and the body; an error is printed.
\* The stream is dropped, which closes the connection, and main's loop goes on.
handle_client_write ==
    /\ pc = "write"
    /\ \E written \in BOOLEAN :
         conn' = [conn EXCEPT ![cur] = IF written THEN "answered" ELSE "unanswered"]
    /\ cur' = 0
    /\ pc' = "accept"
    /\ no_locals
    /\ UNCHANGED <<store, history>>

\* The panic of an unwrap inside a handler: no response is written, and the
\* stream is closed by the unwinding.
panics ==
    /\ pc' = on_panic
    /\ conn' = [conn EXCEPT ![cur] = "unanswered"]
    /\ sql' = "err"
    /\ UNCHANGED <<cur, request, handler, id, user, client, response, history>>

(***************************************************************************)
(* handle_post_request                                                     *)
(***************************************************************************)
\* The matched pair (get_user_from_request_body(request), Client::connect):
\* both Ok goes on to the INSERT, anything else is the 500 "Error".
handle_post_request_connect ==
    /\ pc = "entry"
    /\ handler = "post"
    /\ user' = get_user_from_request_body(request)
    /\ \E connected \in BOOLEAN :
         /\ client' = IF connected THEN "ok" ELSE "err"
         /\ IF user'.ok /\ connected
            THEN /\ pc' = "execute"
                 /\ response' = response
            ELSE /\ pc' = "write"
                 /\ response' = reply(INTERNAL_SERVER_ERROR, MSG_ERROR)
    /\ UNCHANGED <<conn, cur, request, handler, id, sql, store, history>>

\* client.execute("INSERT ...").unwrap(), then 200 "User Created".  When the
\* statement fails the store may or may not have applied it.
handle_post_request_execute ==
    /\ pc = "execute"
    /\ handler = "post"
    /\ LET new_id == serial_id(users, users_id_seq)
           inserted == insert_into_users(users, users_id_seq,
                                         user.user.name, user.user.email)
       IN  \/ /\ primary_key_allows(users, new_id)
              /\ users' = inserted
              /\ users_id_seq' = users_id_seq + 1
              /\ sql' = "ok"
              /\ response' = reply(OK_RESPONSE, MSG_USER_CREATED)
              /\ created' = created \cup {[id |-> new_id, name |-> user.user.name,
                                            email |-> user.user.email]}
              /\ pc' = "write"
              /\ UNCHANGED <<conn, cur, request, handler, id, user, client, deleted>>
           \/ /\ panics
              /\ \/ UNCHANGED store
                 \/ /\ primary_key_allows(users, new_id)
                    /\ users' = inserted
                    /\ users_id_seq' = users_id_seq + 1

(***************************************************************************)
(* handle_get_request                                                      *)
(***************************************************************************)
\* get_id(request).parse::<i32>(): Err returns the 500 "Invalid ID".
parse_id_or_reply ==
    LET parsed == parse_i32(get_id(request)) IN
    IF parsed.ok
    THEN /\ id' = <<parsed.val>>
         /\ pc' = "connect"
         /\ response' = response
    ELSE /\ id' = id
         /\ pc' = "write"
         /\ response' = reply(INTERNAL_SERVER_ERROR, MSG_INVALID_ID)

handle_get_request_parse ==
    /\ pc = "entry"
    /\ handler = "get"
    /\ parse_id_or_reply
    /\ UNCHANGED <<conn, cur, request, handler, user, client, sql, store, history>>

\* Client::connect: Err returns the 500 "Database error".
connect_or_reply ==
    \E connected \in BOOLEAN :
      IF connected
      THEN /\ client' = "ok"
           /\ pc' = "execute"
           /\ response' = response
      ELSE /\ client' = "err"
           /\ pc' = "write"
           /\ response' = reply(INTERNAL_SERVER_ERROR, MSG_DATABASE_ERROR)

handle_get_request_connect ==
    /\ pc = "connect"
    /\ handler = "get"
    /\ connect_or_reply
    /\ UNCHANGED <<conn, cur, request, handler, id, user, sql, store, history>>

\* client.query_one("SELECT ... WHERE id = $1"): Ok(row) only when the
\* statement succeeds and returns exactly one row; every Err is the 404.
handle_get_request_execute ==
    /\ pc = "execute"
    /\ handler = "get"
    /\ \E executed \in BOOLEAN :
         LET rows == select_where_id(users, id[1]) IN
         /\ sql' = IF executed THEN "ok" ELSE "err"
         /\ response' = IF executed /\ Len(rows) = 1
                        THEN reply(OK_RESPONSE, to_string_user(row_to_user(rows[1])))
                        ELSE reply(NOT_FOUND, MSG_USER_NOT_FOUND)
    /\ pc' = "write"
    /\ UNCHANGED <<conn, cur, request, handler, id, user, client, store, history>>

(***************************************************************************)
(* handle_get_all_request                                                  *)
(***************************************************************************)
handle_get_all_request_connect ==
    /\ pc = "entry"
    /\ handler = "get_all"
    /\ connect_or_reply
    /\ UNCHANGED <<conn, cur, request, handler, id, user, sql, store, history>>

\* client.query("SELECT id, name, email FROM users").unwrap(): the rows
\* become the Vec<User> that is serialized.
handle_get_all_request_execute ==
    /\ pc = "execute"
    /\ handler = "get_all"
    /\ \/ /\ sql' = "ok"
          /\ response' = reply(OK_RESPONSE, to_string_users(rows_to_users(users)))
          /\ pc' = "write"
          /\ UNCHANGED <<conn, cur, request, handler, id, user, client, history>>
       \/ panics
    /\ UNCHANGED store

(***************************************************************************)
(* handle_delete_request                                                   *)
(***************************************************************************)
handle_delete_request_parse ==
    /\ pc = "entry"
    /\ handler = "delete"
    /\ parse_id_or_reply
    /\ UNCHANGED <<conn, cur, request, handler, user, client, sql, store, history>>

handle_delete_request_connect ==
    /\ pc = "connect"
    /\ handler = "delete"
    /\ connect_or_reply
    /\ UNCHANGED <<conn, cur, request, handler, id, user, sql, store, history>>

\* client.execute("DELETE ... WHERE id = $1").unwrap(): no row affected is
\* the 404, otherwise 200 "User Deleted".  When the statement fails the
\* store may or may not have applied it.
handle_delete_request_execute ==
    /\ pc = "execute"
    /\ handler = "delete"
    /\ LET remaining == delete_where_id(users, id[1])
           rows_affected == Len(users) - Len(remaining)
       IN  \/ /\ users' = remaining
              /\ sql' = "ok"
              /\ response' = IF rows_affected = 0
                             THEN reply(NOT_FOUND, MSG_USER_NOT_FOUND)
                             ELSE reply(OK_RESPONSE, MSG_USER_DELETED)
              /\ deleted' = IF rows_affected = 0 THEN deleted ELSE deleted \cup {id[1]}
              /\ pc' = "write"
              /\ UNCHANGED <<conn, cur, request, handler, id, user, client, created>>
           \/ /\ panics
              /\ users' \in {users, remaining}
    /\ UNCHANGED users_id_seq

Next ==
    \/ main_start
    \/ client_connects
    \/ main_accept
    \/ handle_client_read
    \/ handle_client_match
    \/ handle_post_request_connect
    \/ handle_post_request_execute
    \/ handle_get_request_parse
    \/ handle_get_request_connect
    \/ handle_get_request_execute
    \/ handle_get_all_request_connect
    \/ handle_get_all_request_execute
    \/ handle_delete_request_parse
    \/ handle_delete_request_connect
    \/ handle_delete_request_execute
    \/ handle_client_write

Spec == Init /\ [][Next]_vars

(***************************************************************************)
(* Vocabulary of the properties.                                           *)
(***************************************************************************)
\* handle_client holds a connection: from the accept to the end of the write.
handler_running == pc \in {"read", "match", "entry", "connect", "execute", "write"}

\* The third "/"-delimited token of a text: what lies between its second
\* slash and its third (or its end); empty when it has fewer than two slashes.
slashes(s) == {i \in 1..Len(s) : s[i] = "/"}

least(S) == CHOOSE i \in S : \A j \in S : i <= j

third_token(s) ==
    IF Cardinality(slashes(s)) < 2 THEN <<>>
    ELSE LET second == least(slashes(s) \ {least(slashes(s))})
             later  == {i \in slashes(s) : i > second}
             stop   == IF later = {} THEN Len(s) + 1 ELSE least(later)
         IN  SubSeq(s, second + 1, stop - 1)

\* A text cut at its first whitespace character.
cut_at_whitespace(s) ==
    LET blanks == {i \in 1..Len(s) : is_whitespace(s[i])} IN
    IF blanks = {} THEN s ELSE SubSeq(s, 1, least(blanks) - 1)

\* The first whitespace-delimited word of a text: leading whitespace is
\* skipped; empty when the text holds no other character.
first_word(s) ==
    LET inked == {i \in 1..Len(s) : ~is_whitespace(s[i])} IN
    IF inked = {} THEN <<>>
    ELSE cut_at_whitespace(SubSeq(s, least(inked), Len(s)))

\* The rows of the table whose id is n.
rows_with_id(n) == {k \in 1..Len(users) : users[k].id = n}

\* The JSON object of a row, fields in the order id, name, email.
row_json(row) ==
    to_string_user([id |-> <<row.id>>, name |-> row.name, email |-> row.email])

(***************************************************************************)
(* C1.  The Router picks its outcome by testing the prefixes "POST /users", *)
(* "GET /users/", "GET /users", "DELETE /users/" in this order, the first   *)
(* match winning (Create, GetOne, GetAll, Delete); a request text that      *)
(* starts with none of them gets 404 "Not Found" and runs no handler.       *)
(***************************************************************************)
\* C1: the handler is the one of the first matching prefix; with no matching
\* prefix the response is 404 "Not Found" and no handler has touched the store.
C1_RouterFirstMatchWins ==
    handler # "none" =>
      /\ starts_with(request, POST_USERS) => handler = "post"
      /\ (~starts_with(request, POST_USERS) /\ starts_with(request, GET_USERS_SLASH))
           => handler = "get"
      /\ (/\ ~starts_with(request, POST_USERS)
          /\ ~starts_with(request, GET_USERS_SLASH)
          /\ starts_with(request, GET_USERS)) => handler = "get_all"
      /\ (/\ ~starts_with(request, POST_USERS)
          /\ ~starts_with(request, GET_USERS)
          /\ starts_with(request, DELETE_USERS_SLASH)) => handler = "delete"
      /\ (/\ ~starts_with(request, POST_USERS)
          /\ ~starts_with(request, GET_USERS)
          /\ ~starts_with(request, DELETE_USERS_SLASH))
           => /\ handler = "not_found"
              /\ pc = "write"
              /\ response = reply(NOT_FOUND, MSG_NOT_FOUND)
              /\ client = "none" /\ sql = "none"
      /\ request \in {REQ_PUT_1, REQ_DELETE_NO_ID} => handler = "not_found"

\* DELETE /users, with no slash after it, has been answered 404 "Not Found".
C1_Witness ==
    /\ pc = "write"
    /\ request = REQ_DELETE_NO_ID
    /\ response = reply(NOT_FOUND, MSG_NOT_FOUND)

(***************************************************************************)
(* C2.  With the database reachable, once a Delete of an existing id has   *)
(* returned 200 "User Deleted", every later GetOne of that id returns 404   *)
(* "User not found", whatever is served in between: the store never gives   *)
(* the deleted id to a new row.                                            *)
(***************************************************************************)
\* C2: no row carries a deleted id, and a GetOne of a deleted id that reached
\* the database is answered 404 "User not found".
C2_DeletedIdStaysGone ==
    /\ \A k \in 1..Len(users) : users[k].id \notin deleted
    /\ (pc = "write" /\ handler = "get" /\ client = "ok" /\ id[1] \in deleted)
         => response = reply(NOT_FOUND, MSG_USER_NOT_FOUND)

\* A GetOne of a deleted id is answered while a row created after the
\* deletion is in the table.
C2_Witness ==
    /\ pc = "write" /\ handler = "get" /\ client = "ok"
    /\ id[1] \in deleted
    /\ \E k \in 1..Len(users) : users[k].id > id[1]

(***************************************************************************)
(* C3.  After a Create with a valid {name, email} body has returned 200    *)
(* "User Created", a GetAll served before any Delete of that row lists a    *)
(* user with that name and email and a store-assigned positive id that no   *)
(* other listed user has.                                                  *)
(*                                                                         *)
(* As claimed (C3_Original): every such GetAll returns the 200 and the      *)
(* array.  As the code has it (C3_GetAllListsCreatedUsers): the GetAll      *)
(* returns 500 "Database error" when its connection fails, ends the server  *)
(* without a response when its SELECT fails, and returns the 200 and the    *)
(* array otherwise.                                                        *)
(***************************************************************************)
\* The rows created with a 200 and not deleted since.
live_created == {r \in created : r.id \notin deleted}

\* The body lists the rows of the table, and among them each live created
\* row, under a positive id that no other listed row has.
lists_created_users(content) ==
    /\ content = <<"[">> \o join_users([k \in 1..Len(users) |->
                     [id |-> <<users[k].id>>, name |-> users[k].name,
                      email |-> users[k].email]], 1) \o <<"]">>
    /\ \A r \in live_created :
         /\ r.id > 0
         /\ \E k \in 1..Len(users) :
              /\ users[k] = r
              /\ \A j \in 1..Len(users) : j # k => users[j].id # r.id

get_all_finished == handler = "get_all" /\ pc \in {"write", "crashed"}

\* C3 as claimed: such a GetAll always returns 200 and the array listing the
\* created user.
C3_Original ==
    (get_all_finished /\ live_created # {}) =>
      /\ pc = "write"
      /\ response.status_line = OK_RESPONSE
      /\ lists_created_users(response.content)

\* C3 as the code has it: 500 "Database error" on a failed connection, the end
\* of the server on a failed SELECT, the 200 and the array otherwise.
C3_GetAllListsCreatedUsers ==
    (get_all_finished /\ live_created # {}) =>
      CASE client = "err" ->
             pc = "write" /\ response = reply(INTERNAL_SERVER_ERROR, MSG_DATABASE_ERROR)
        [] client = "ok" /\ sql = "err" ->
             pc = "crashed" /\ response = NO_RESPONSE
        [] OTHER ->
             /\ pc = "write" /\ client = "ok" /\ sql = "ok"
             /\ response.status_line = OK_RESPONSE
             /\ lists_created_users(response.content)

\* A GetAll has listed two created rows.
C3_Witness ==
    /\ pc = "write" /\ handler = "get_all" /\ sql = "ok"
    /\ Cardinality(live_created) >= 2
    /\ response.status_line = OK_RESPONSE

(***************************************************************************)
(* C4.  A Delete whose integer id matches no row returns 404 "User not     *)
(* found" and leaves the users table exactly as it was.                    *)
(*                                                                         *)
(* As claimed (C4_Original): the 404 in every case.  As the code has it     *)
(* (C4_DeleteOfMissingIdKeepsTable): the table is left as it was in every   *)
(* case; the response is the 404 when the connection and the DELETE        *)
(* succeed, 500 "Database error" when the connection fails, and none (the   *)
(* server ends) when the DELETE fails.                                     *)
(***************************************************************************)
delete_of_missing_id ==
    /\ handler = "delete"
    /\ pc \in {"connect", "execute"}
    /\ rows_with_id(id[1]) = {}

\* C4 as claimed: a Delete of an id that no row has keeps the table and is
\* always answered 404 "User not found".
C4_Original ==
    [][delete_of_missing_id =>
         /\ users' = users
         /\ pc' # "crashed"
         /\ pc' = "write" => response' = reply(NOT_FOUND, MSG_USER_NOT_FOUND)]_vars

\* C4 as the code has it: the table is kept in every case; the answer is the
\* 404 after a successful DELETE, 500 "Database error" after a failed
\* connection, and none when the DELETE fails.
C4_DeleteOfMissingIdKeepsTable ==
    [][delete_of_missing_id =>
         /\ users' = users
         /\ users_id_seq' = users_id_seq
         /\ pc' \in {"connect", "execute", "write", "crashed"}
         /\ pc' = "write" =>
              response' = IF client' = "ok"
                          THEN reply(NOT_FOUND, MSG_USER_NOT_FOUND)
                          ELSE reply(INTERNAL_SERVER_ERROR, MSG_DATABASE_ERROR)
         /\ pc' = "crashed" => sql' = "err" /\ response' = NO_RESPONSE]_vars

\* A Delete of an id that no row has was answered 404 with rows in the table.
C4_Witness ==
    /\ pc = "write" /\ handler = "delete" /\ sql = "ok"
    /\ users # <<>>
    /\ rows_with_id(id[1]) = {}
    /\ response = reply(NOT_FOUND, MSG_USER_NOT_FOUND)

(***************************************************************************)
(* C5.  With the database reachable and an id that parses as a 32-bit      *)
(* integer, GetOne returns 200 with the JSON object (id, name, email) of    *)
(* the row having that id when exactly one such row exists and 404 "User    *)
(* not found" otherwise, and it does not change the table.                 *)
(*                                                                         *)
(* As claimed (C5_Original): the 200 whenever exactly one row has the id.   *)
(* As the code has it (C5_GetOneReturnsTheRow): the 200 when exactly one    *)
(* row has the id and the SELECT executes without error; the 404            *)
(* otherwise, also when the SELECT fails.                                  *)
(***************************************************************************)
get_one_answered == pc = "write" /\ handler = "get" /\ client = "ok"

\* C5 as claimed: with the connection made, GetOne returns 200 and the row's
\* JSON object whenever exactly one row has the id, 404 otherwise.
C5_Original ==
    get_one_answered =>
      response = IF Cardinality(rows_with_id(id[1])) = 1
                 THEN reply(OK_RESPONSE,
                            row_json(users[CHOOSE k \in rows_with_id(id[1]) : TRUE]))
                 ELSE reply(NOT_FOUND, MSG_USER_NOT_FOUND)

\* C5 as the code has it: GetOne never changes the table, and with the
\* connection made it returns 200 and the row's JSON object when the SELECT
\* succeeds and exactly one row has the id, 404 "User not found" otherwise.
C5_GetOneReturnsTheRow ==
    [][/\ handler = "get" => (users' = users /\ users_id_seq' = users_id_seq)
       /\ get_one_answered' =>
            response' = IF sql' = "ok" /\ Cardinality(rows_with_id(id[1])') = 1
                        THEN reply(OK_RESPONSE,
                                   row_json(users'[CHOOSE k \in rows_with_id(id[1])' : TRUE]))
                        ELSE reply(NOT_FOUND, MSG_USER_NOT_FOUND)]_vars

\* A GetOne has returned the row of its id, another row being in the table.
C5_Witness ==
    /\ get_one_answered /\ sql = "ok"
    /\ Len(users) >= 2
    /\ response.status_line = OK_RESPONSE

(***************************************************************************)
(* C6.  For a request routed to GetOne or Delete, the response is 500      *)
(* "Invalid ID" exactly when the identifier does not parse as a 32-bit     *)
(* integer.                                                                *)
(*                                                                         *)
(* As claimed (C6_Original): the identifier is the third "/"-delimited      *)
(* token cut at its first whitespace (empty when nothing precedes that      *)
(* whitespace).  As the code has it (C6_InvalidIdIffNoI32): the identifier  *)
(* is the first whitespace-delimited word of that token, leading            *)
(* whitespace skipped (empty when the token is absent or all whitespace).   *)
(***************************************************************************)
id_handler_answered == pc = "write" /\ handler \in {"get", "delete"}

invalid_id_reply == reply(INTERNAL_SERVER_ERROR, MSG_INVALID_ID)

\* C6 as claimed: 500 "Invalid ID" exactly when the third token, cut at its
\* first whitespace, is no i32.
C6_Original ==
    id_handler_answered =>
      (response = invalid_id_reply
         <=> ~parse_i32(cut_at_whitespace(third_token(request))).ok)

\* C6 as the code has it: 500 "Invalid ID" exactly when the first word of the
\* third token is no i32; otherwise the handler goes on with its value.
C6_InvalidIdIffNoI32 ==
    LET identifier == first_word(third_token(request)) IN
    /\ id_handler_answered =>
         (response = invalid_id_reply <=> ~parse_i32(identifier).ok)
    /\ (handler \in {"get", "delete"} /\ pc \in {"connect", "execute", "write", "crashed"})
         => IF parse_i32(identifier).ok
            THEN id = <<parse_i32(identifier).val>>
            ELSE id = <<>> /\ pc = "write" /\ client = "none"
    /\ (id_handler_answered /\ request \in {REQ_GET_ABC, REQ_GET_EMPTY_ID, REQ_GET_BARE,
                                            REQ_GET_TOO_BIG, REQ_DELETE_1X})
         => response = invalid_id_reply

\* "GET /users/ 1 HTTP/1.1", whose third token starts with a space, was
\* served as the GetOne of user 1.
C6_Witness ==
    /\ id_handler_answered
    /\ request = REQ_GET_SPACE_1
    /\ id = <<1>>
    /\ response # invalid_id_reply

(***************************************************************************)
(* C7.  Connections are handled independently: while the handler of one    *)
(* accepted connection is still running, the accept loop can accept         *)
(* another connection.                                                     *)
(*                                                                         *)
(* As claimed (C7_Original): with a handler running and a connection        *)
(* waiting, the accept is possible.  As the code has it                     *)
(* (C7_OneConnectionAtATime): handle_client runs on the thread of the       *)
(* accept loop, so while it holds a connection no other connection is       *)
(* accepted, and at most one connection is ever open; a slow read or        *)
(* query delays every connection waiting behind it.                        *)
(***************************************************************************)
open_connections == {c \in ConnIds : conn[c] = "open"}

waiting_connections == {c \in ConnIds : conn[c] = "queued"}

\* C7 as claimed: while a handler runs, a waiting connection can be accepted.
C7_Original ==
    (handler_running /\ waiting_connections # {}) => ENABLED main_accept

\* C7 as the code has it: at most one connection is open, and no connection
\* is accepted while handle_client holds one.
C7_OneConnectionAtATime ==
    /\ Cardinality(open_connections) <= 1
    /\ handler_running => (open_connections = {cur} /\ ~ENABLED main_accept)
    /\ pc = "accept" => (open_connections = {} /\ cur = 0)

\* A connection waits in the backlog while the query of another one runs.
C7_Witness ==
    /\ pc = "execute"
    /\ waiting_connections # {}
    /\ open_connections = {cur}

(***************************************************************************)
(* C8.  Every store or parse error inside a handler becomes a response,     *)
(* the only exception being a SQL execution error on the write path of      *)
(* Create or Delete: a failing query in GetOne or GetAll always yields a    *)
(* response and never an abort.                                            *)
(***************************************************************************)
\* C8: a failed query in GetOne or GetAll yields a response, and only Create
\* and Delete can end in a panic.
C8_ReadHandlersNeverAbort ==
    /\ (handler \in {"get", "get_all"} /\ sql = "err")
         => (pc = "write" /\ response # NO_RESPONSE)
    /\ (pc = "crashed" /\ handler # "none") => handler \in {"post", "delete"}

statement_failed == sql = "err" /\ handler \in {"post", "delete", "get_all"}

\* C10: once the INSERT, the DELETE or the SELECT of GetAll has failed, the
\* server is dead: no response on that connection, no connection open, and
\* no connection changes state afterwards.
C10_SqlFailureEndsTheServer ==
    [][/\ statement_failed' =>
            /\ pc' = "crashed"
            /\ response' = NO_RESPONSE
            /\ conn'[cur'] = "unanswered"
            /\ \A c \in ConnIds : conn'[c] # "open"
       /\ statement_failed => (pc' = "crashed" /\ conn' = conn)]_vars

\* The SELECT of a GetAll has failed with another connection in the backlog.
C10_Witness ==
    /\ pc = "crashed" /\ sql = "err" /\ handler = "get_all"
    /\ \E c \in ConnIds : conn[c] = "queued"

=============================================================================
